---- MODULE Spec2Model ----
(***************************************************************************)
(* Model of the frame loop of src/app.py (eye-blink health monitor).       *)
(*                                                                         *)
(* One iteration of `while True` (lines 132-255) is modelled as four steps *)
(* taken in the order of the source text:                                  *)
(*   "read"   lines 139-148  cap.read(), findFaceMesh, time.time()         *)
(*   "minute" lines 150-165  minute-boundary check and record              *)
(*   "branch" lines 167-244  face branch (ratio, window, detection,        *)
(*                           debounce) or no-face branch                   *)
(*   "quit"   lines 246-255  waitKey and the final session record          *)
(* Time is in whole seconds.  Distances are integers; the only use of the  *)
(* two distances is their quotient.  The wall clock is taken to be         *)
(* non-decreasing.                                                         *)
(***************************************************************************)
EXTENDS Integers, Sequences, FiniteSets, TLC

VARIABLES
    pc,                  \* position of the main loop
    exitReason,          \* "none", "quit" or "readfail": which break was taken
    currentTime,         \* line 148 (between frames: the last sampled time)
    faces,               \* line 145: TRUE iff findFaceMesh returned a face
    sessionStartTime,    \* line 70
    lastMinuteCheck,     \* line 71
    currentMinuteBlinks, \* line 73
    ratioList,           \* line 127
    blinkCounter,        \* line 128
    counter,             \* line 129
    records,             \* the calls of saveBlinkDataToFirebase, in order
    frames,              \* history: number of frames read so far
    resetThisFrame,      \* history: the minute check fired on this frame
    blinkThisFrame,      \* history: a blink was registered on this frame
    sinceBlink,          \* history: face frames since the last registering frame (-1: none yet)
    runLen,              \* history: length of the current run of face frames with ratioAvg < 35
    runBlinks,           \* history: blinks registered during that run
    runStartIdle,        \* history: counter was 0 when that run began
    db,                  \* lines 14-41: "none" or "client"
    lastSave,            \* outcome of the latest call of saveBlinkDataToFirebase
    lengths,             \* lines 180-181: <<lenghtVer, lenghtHor>> of faces[0] in this frame
    arg,                 \* function application: the arguments
    out,                 \* function application: the result
    samples              \* function application: every ratio appended so far

vars == <<pc, exitReason, currentTime, faces, sessionStartTime, lastMinuteCheck,
          currentMinuteBlinks, ratioList, blinkCounter, counter, records,
          frames, resetThisFrame, blinkThisFrame, sinceBlink, runLen,
          runBlinks, runStartIdle, db, lastSave, lengths, arg, out, samples>>

\* the variables used only to apply single functions of the program
fnVars == <<arg, out, samples>>

\* ---- bounds of the model ----
MaxFrames == 12
MaxTime == 130

MaxSamples == 5
MaxRate == 40
MaxBlinks == 5

\* the ratios appended when the window is exercised alone
WindowInputs == {10, 20, 50}
\* the session durations, in seconds, at which the live estimate is computed
Durations == {0, 10, 29, 30, 31, 45, 60, 90, 120}

\* the end-to-end scenario: frames with ratio 40, then 20, then 40 again,
\* and the seconds from the start of the session to the last frame
ScenarioOpen == 27
ScenarioDip == 3
ScenarioTail == 60
ScenarioSeconds == 65
ScenarioFrames == ScenarioOpen + ScenarioDip + ScenarioTail
\* seconds between two frames of the scenario
ScenarioDeltas == {0, 1, 2}

\* seconds that may pass between two samples of time.time()
Deltas == {0, 20, 45}
\* seconds between line 148 and line 250 of the quitting frame
FinalDelays == {0, 1}
\* <<lenghtVer, lenghtHor>> of a detected face
Inputs == {<<7, 32>>, <<13, 32>>, <<5, 0>>}

\* ---- program constants ----
HEALTHY_BLINK_RATE_MIN == 12
HEALTHY_BLINK_RATE_MAX == 20
BlinkThreshold == 35
WindowSize == 3
DebounceLimit == 10
MinuteSeconds == 60

RECURSIVE Sum(_)
Sum(s) == IF s = <<>> THEN 0 ELSE Head(s) + Sum(Tail(s))

\* the healthy band taken as exclusive at its lower end
getBlinkHealthStatusExclusive(blinksPerMinute) ==
    IF blinksPerMinute <= HEALTHY_BLINK_RATE_MIN THEN "TOO LOW"
    ELSE IF blinksPerMinute > HEALTHY_BLINK_RATE_MAX THEN "TOO HIGH"
    ELSE "HEALTHY"

getBlinkHealthStatus(blinksPerMinute) ==
    IF blinksPerMinute < HEALTHY_BLINK_RATE_MIN THEN "TOO LOW"
    ELSE IF blinksPerMinute > HEALTHY_BLINK_RATE_MAX THEN "TOO HIGH"
    ELSE "HEALTHY"

\* the nearest integer to n / d, halves to the even neighbour (Python round)
RoundNearest(n, d) ==
    LET q == n \div d
        r == n % d
    IN  IF 2 * r < d THEN q
        ELSE IF 2 * r > d THEN q + 1
        ELSE IF q % 2 = 0 THEN q ELSE q + 1

\* round() in place of int()
RatioRounded(lenghtVer, lenghtHor) == RoundNearest(lenghtVer * 100, lenghtHor)

\* line 186: int((lenghtVer/lenghtHor) * 100), for lenghtHor # 0
Ratio(lenghtVer, lenghtHor) == (lenghtVer * 100) \div lenghtHor

\* pop() instead of pop(0): the newest sample is dropped
WindowDropsNewest(rl, ratio) ==
    LET appended == Append(rl, ratio)
    IN  IF Len(appended) > WindowSize
        THEN SubSeq(appended, 1, Len(appended) - 1)
        ELSE appended

\* lines 187-190: append, then drop the oldest when longer than 3
Window(rl, ratio) ==
    LET appended == Append(rl, ratio)
    IN  IF Len(appended) > WindowSize THEN Tail(appended) ELSE appended

\* lines 191, 193: ratioAvg < 35 with ratioAvg = sum / len
BelowThreshold(rl) == Sum(rl) < BlinkThreshold * Len(rl)

\* the detection without the test of the counter
BlinkDetectedNoDebounce(rl, c) == BelowThreshold(rl)

\* line 193
BlinkDetected(rl, c) == BelowThreshold(rl) /\ c = 0

\* the refractory period cut short: counter > 8 instead of counter > 10
DebounceShort(c, detected) ==
    LET c1 == IF detected THEN 1 ELSE c
    IN  IF c1 # 0
        THEN IF c1 + 1 > 8 THEN 0 ELSE c1 + 1
        ELSE c1

\* the reset one frame late: counter > 11 instead of counter > 10
DebounceLate(c, detected) ==
    LET c1 == IF detected THEN 1 ELSE c
    IN  IF c1 # 0
        THEN IF c1 + 1 > 11 THEN 0 ELSE c1 + 1
        ELSE c1

\* lines 196, 199-202: the value of counter at the end of the face branch
Debounce(c, detected) ==
    LET c1 == IF detected THEN 1 ELSE c
    IN  IF c1 # 0
        THEN IF c1 + 1 > DebounceLimit THEN 0 ELSE c1 + 1
        ELSE c1

\* the boundary test with > instead of >=
MinuteDueStrict(t, last) == t - last > MinuteSeconds

\* line 151
MinuteDue(t, last) == t - last >= MinuteSeconds

\* the bucket start advanced by 60 instead of set to the frame's time
NewBucketStartAligned(t, last) == last + MinuteSeconds

\* line 162: the start of the bucket opened by a reset
NewBucketStart(t, last) == t

\* line 191: ratioAvg = sum(ratioList) / len(ratioList), as <<numerator, denominator>>
RatioAvg(rl) == <<Sum(rl), Len(rl)>>

Max2(a, b) == IF a >= b THEN a ELSE b

\* the 30 s boundary sent to the conservative branch
LiveEstimateStrict(bc, duration) ==
    LET estimatedBlinksPerMinute ==
            IF duration > 30
            THEN (bc * 60) \div duration
            ELSE (60 * bc) \div Max2(2 * duration, 60)
    IN  <<estimatedBlinksPerMinute, getBlinkHealthStatus(estimatedBlinksPerMinute)>>

\* lines 206-211: <<estimatedBlinksPerMinute, healthStatus>>;
\* int(bc / (d/60)) is (60*bc) \div d, and
\* int((bc / max(d/60, 0.5)) * 0.5) is (60*bc) \div max(2*d, 60)
LiveEstimate(bc, duration) ==
    LET estimatedBlinksPerMinute ==
            IF duration >= 30
            THEN (bc * 60) \div duration
            ELSE (60 * bc) \div Max2(2 * duration, 60)
    IN  <<estimatedBlinksPerMinute, getBlinkHealthStatus(estimatedBlinksPerMinute)>>

\* line 251: int(blinkCounter / max(finalSessionDuration / 60, 0.1))
FinalRate(bc, duration) ==
    IF duration >= 6 THEN (bc * 60) \div duration ELSE bc * 10

\* lines 86-116: the possible outcomes of one call
saveBlinkDataToFirebase(d) ==
    IF d = "none" THEN {"skipped"} ELSE {"saved", "failed"}

\* the session average stored in place of the bucket count
MinuteRecordStoresAverage(cmb, bc, duration) ==
    [kind |-> "minute",
     blinksPerMinute |-> (bc * 60) \div duration,
     healthStatus |-> getBlinkHealthStatus((bc * 60) \div duration),
     totalBlinks |-> bc,
     sessionDuration |-> duration]

\* lines 152-159: the arguments of the call at a minute boundary
MinuteRecord(cmb, bc, duration) ==
    [kind |-> "minute",
     blinksPerMinute |-> cmb,
     healthStatus |-> getBlinkHealthStatus(cmb),
     totalBlinks |-> bc,
     sessionDuration |-> duration]

\* lines 250-253: the arguments of the call on the quit path
FinalRecord(bc, duration) ==
    [kind |-> "final",
     blinksPerMinute |-> FinalRate(bc, duration),
     healthStatus |-> getBlinkHealthStatus(FinalRate(bc, duration)),
     totalBlinks |-> bc,
     sessionDuration |-> duration]

\* the face branch placed before the minute-boundary check
PcAfterDetectFirst(p) ==
    CASE p = "read" -> "branch"
      [] p = "branch" -> "minute"
      [] p = "minute" -> "quit"
      [] p = "quit" -> "read"

\* the order of the four parts of the loop body
PcAfter(p) ==
    CASE p = "read" -> "minute"
      [] p = "minute" -> "branch"
      [] p = "branch" -> "quit"
      [] p = "quit" -> "read"

Init ==
    /\ pc = "read"
    /\ exitReason = "none"
    /\ currentTime = 0
    /\ faces = FALSE
    /\ sessionStartTime = 0
    /\ lastMinuteCheck = 0
    /\ currentMinuteBlinks = 0
    /\ ratioList = <<>>
    /\ blinkCounter = 0
    /\ counter = 0
    /\ records = <<>>
    /\ frames = 0
    /\ resetThisFrame = FALSE
    /\ blinkThisFrame = FALSE
    /\ sinceBlink = -1
    /\ runLen = 0
    /\ runBlinks = 0
    /\ runStartIdle = FALSE
    /\ db \in {"none", "client"}
    /\ lastSave = "none"
    /\ lengths = <<0, 0>>
    /\ arg = <<>>
    /\ out = <<>>
    /\ samples = <<>>

\* lines 139-148, success: a frame is read, faces and the time are sampled
ReadFrame ==
    /\ pc = "read"
    /\ frames < MaxFrames
    /\ \E d \in Deltas, f \in BOOLEAN :
          /\ currentTime + d <= MaxTime
          /\ currentTime' = currentTime + d
          /\ faces' = f
          /\ IF f THEN lengths' \in Inputs ELSE lengths' = <<0, 0>>
    /\ frames' = frames + 1
    /\ resetThisFrame' = FALSE
    /\ blinkThisFrame' = FALSE
    /\ pc' = PcAfter("read")
    /\ UNCHANGED fnVars
    /\ UNCHANGED <<db, lastSave,
                   exitReason, sessionStartTime, lastMinuteCheck, currentMinuteBlinks,
                   ratioList, blinkCounter, counter, records, sinceBlink,
                   runLen, runBlinks, runStartIdle>>

\* lines 139-143, failure: break without a record
ReadFail ==
    /\ pc = "read"
    /\ pc' = "done"
    /\ exitReason' = "readfail"
    /\ UNCHANGED fnVars
    /\ UNCHANGED <<db, lastSave, lengths,
                   currentTime, faces, sessionStartTime, lastMinuteCheck,
                   currentMinuteBlinks, ratioList, blinkCounter, counter, records,
                   frames, resetThisFrame, blinkThisFrame, sinceBlink, runLen,
                   runBlinks, runStartIdle>>

\* the reset clears the session total instead of the minute count
MinuteCheckResetsTotal ==
    /\ pc = "minute"
    /\ IF MinuteDue(currentTime, lastMinuteCheck)
       THEN /\ records' = Append(records,
                    MinuteRecord(currentMinuteBlinks, blinkCounter,
                                 currentTime - sessionStartTime))
            /\ lastSave' \in saveBlinkDataToFirebase(db)
            /\ lastMinuteCheck' = NewBucketStart(currentTime, lastMinuteCheck)
            /\ blinkCounter' = 0
            /\ resetThisFrame' = TRUE
       ELSE UNCHANGED <<records, lastSave, lastMinuteCheck, blinkCounter, resetThisFrame>>
    /\ pc' = PcAfter("minute")
    /\ UNCHANGED fnVars
    /\ UNCHANGED <<db, lengths,
                   exitReason, currentTime, faces, sessionStartTime, ratioList,
                   currentMinuteBlinks, counter, frames, blinkThisFrame, sinceBlink,
                   runLen, runBlinks, runStartIdle>>

\* a failed write keeps the bucket open, so the call is repeated on the next frame
MinuteCheckRetriesOnFailure ==
    /\ pc = "minute"
    /\ IF MinuteDue(currentTime, lastMinuteCheck)
       THEN /\ records' = Append(records,
                    MinuteRecord(currentMinuteBlinks, blinkCounter,
                                 currentTime - sessionStartTime))
            /\ lastSave' \in saveBlinkDataToFirebase(db)
            /\ IF lastSave' = "failed"
               THEN UNCHANGED <<lastMinuteCheck, currentMinuteBlinks>>
               ELSE /\ lastMinuteCheck' = NewBucketStart(currentTime, lastMinuteCheck)
                    /\ currentMinuteBlinks' = 0
            /\ resetThisFrame' = TRUE
       ELSE UNCHANGED <<records, lastSave, lastMinuteCheck, currentMinuteBlinks,
                         resetThisFrame>>
    /\ pc' = PcAfter("minute")
    /\ UNCHANGED fnVars
    /\ UNCHANGED <<db, lengths,
                   exitReason, currentTime, faces, sessionStartTime, ratioList,
                   blinkCounter, counter, frames, blinkThisFrame, sinceBlink,
                   runLen, runBlinks, runStartIdle>>

\* lines 150-165
MinuteCheck ==
    /\ pc = "minute"
    /\ IF MinuteDue(currentTime, lastMinuteCheck)
       THEN /\ records' = Append(records,
                    MinuteRecord(currentMinuteBlinks, blinkCounter,
                                 currentTime - sessionStartTime))
            /\ lastSave' \in saveBlinkDataToFirebase(db)
            /\ lastMinuteCheck' = NewBucketStart(currentTime, lastMinuteCheck)
            /\ currentMinuteBlinks' = 0
            /\ resetThisFrame' = TRUE
       ELSE UNCHANGED <<records, lastSave, lastMinuteCheck, currentMinuteBlinks,
                         resetThisFrame>>
    /\ pc' = PcAfter("minute")
    /\ UNCHANGED fnVars
    /\ UNCHANGED <<db, lengths,
                   exitReason, currentTime, faces, sessionStartTime, ratioList,
                   blinkCounter, counter, frames, blinkThisFrame, sinceBlink,
                   runLen, runBlinks, runStartIdle>>

\* lines 167-231, lenghtHor # 0
FaceBranch ==
    /\ pc = "branch"
    /\ faces
    /\ lengths[2] # 0
    /\ LET rl == Window(ratioList, Ratio(lengths[1], lengths[2]))
           detected == BlinkDetected(rl, counter)
           below == BelowThreshold(rl)
       IN  /\ ratioList' = rl
           /\ blinkCounter' = IF detected THEN blinkCounter + 1 ELSE blinkCounter
           /\ currentMinuteBlinks' =
                  IF detected THEN currentMinuteBlinks + 1 ELSE currentMinuteBlinks
           /\ counter' = Debounce(counter, detected)
           /\ blinkThisFrame' = detected
           /\ sinceBlink' = IF detected THEN 0
                            ELSE IF sinceBlink < 0 THEN sinceBlink
                            ELSE sinceBlink + 1
           /\ runLen' = IF below THEN runLen + 1 ELSE 0
           /\ runBlinks' = IF ~below THEN 0
                           ELSE (IF runLen = 0 THEN 0 ELSE runBlinks)
                                + (IF detected THEN 1 ELSE 0)
           /\ runStartIdle' = IF ~below THEN FALSE
                              ELSE IF runLen = 0 THEN counter = 0
                              ELSE runStartIdle
    /\ pc' = PcAfter("branch")
    /\ UNCHANGED fnVars
    /\ UNCHANGED <<db, lastSave, lengths,
                   exitReason, currentTime, faces, sessionStartTime, lastMinuteCheck,
                   records, frames, resetThisFrame>>

\* a zero horizontal distance taken silently as ratio 0
FaceBranchErrorSilent ==
    /\ pc = "branch"
    /\ faces
    /\ lengths[2] = 0
    /\ ratioList' = Window(ratioList, 0)
    /\ pc' = PcAfter("branch")
    /\ UNCHANGED fnVars
    /\ UNCHANGED <<db, lastSave, lengths,
                   exitReason, currentTime, faces, sessionStartTime, lastMinuteCheck,
                   currentMinuteBlinks, blinkCounter, counter, records,
                   frames, resetThisFrame, blinkThisFrame, sinceBlink, runLen,
                   runBlinks, runStartIdle>>

\* line 186 with lenghtHor = 0: ZeroDivisionError, uncaught, ends the program
FaceBranchError ==
    /\ pc = "branch"
    /\ faces
    /\ lengths[2] = 0
    /\ pc' = "crashed"
    /\ UNCHANGED fnVars
    /\ UNCHANGED <<db, lastSave, lengths,
                   exitReason, currentTime, faces, sessionStartTime, lastMinuteCheck,
                   currentMinuteBlinks, ratioList, blinkCounter, counter, records,
                   frames, resetThisFrame, blinkThisFrame, sinceBlink, runLen,
                   runBlinks, runStartIdle>>

\* a missing face treated as a sample of ratio 0
NoFaceBranchZeroRatio ==
    /\ pc = "branch"
    /\ ~faces
    /\ pc' = PcAfter("branch")
    /\ ratioList' = Window(ratioList, 0)
    /\ runLen' = 0
    /\ runBlinks' = 0
    /\ runStartIdle' = FALSE
    /\ UNCHANGED fnVars
    /\ UNCHANGED <<db, lastSave, lengths,
                   exitReason, currentTime, faces, sessionStartTime, lastMinuteCheck,
                   currentMinuteBlinks, blinkCounter, counter, records,
                   frames, resetThisFrame, blinkThisFrame, sinceBlink>>

\* lines 233-244
NoFaceBranch ==
    /\ pc = "branch"
    /\ ~faces
    /\ pc' = PcAfter("branch")
    /\ runLen' = 0
    /\ runBlinks' = 0
    /\ runStartIdle' = FALSE
    /\ UNCHANGED fnVars
    /\ UNCHANGED <<db, lastSave, lengths,
                   exitReason, currentTime, faces, sessionStartTime, lastMinuteCheck,
                   currentMinuteBlinks, ratioList, blinkCounter, counter, records,
                   frames, resetThisFrame, blinkThisFrame, sinceBlink>>

\* line 248, key is not 'q': next iteration
Continue ==
    /\ pc = "quit"
    /\ pc' = PcAfter("quit")
    /\ UNCHANGED fnVars
    /\ UNCHANGED <<db, lastSave, lengths,
                   exitReason, currentTime, faces, sessionStartTime, lastMinuteCheck,
                   currentMinuteBlinks, ratioList, blinkCounter, counter, records,
                   frames, resetThisFrame, blinkThisFrame, sinceBlink, runLen,
                   runBlinks, runStartIdle>>

\* lines 248-255, key is 'q': final record, break
Quit ==
    /\ pc = "quit"
    /\ \E d \in FinalDelays :
          LET finalSessionDuration == currentTime + d - sessionStartTime
          IN  records' = Append(records, FinalRecord(blinkCounter, finalSessionDuration))
    /\ lastSave' \in saveBlinkDataToFirebase(db)
    /\ pc' = "done"
    /\ exitReason' = "quit"
    /\ UNCHANGED fnVars
    /\ UNCHANGED <<db, lengths,
                   currentTime, faces, sessionStartTime, lastMinuteCheck,
                   currentMinuteBlinks, ratioList, blinkCounter, counter,
                   frames, resetThisFrame, blinkThisFrame, sinceBlink, runLen,
                   runBlinks, runStartIdle>>

Next ==
    \/ ReadFrame
    \/ ReadFail
    \/ MinuteCheck
    \/ FaceBranch
    \/ FaceBranchError
    \/ NoFaceBranch
    \/ Continue
    \/ Quit

Spec == Init /\ [][Next]_vars

\* ---- the end-to-end scenario: every frame shows a face, with given ratios ----
\* <<lenghtVer, lenghtHor>> of the n-th frame: ratio 40 is 2/5, ratio 20 is 1/5
ScenarioInput(n) ==
    IF n > ScenarioOpen /\ n <= ScenarioOpen + ScenarioDip THEN <<1, 5>> ELSE <<2, 5>>

\* lines 139-148 for a frame of the scenario
ScenarioRead ==
    /\ pc = "read"
    /\ frames < ScenarioFrames
    /\ \E d \in ScenarioDeltas :
          /\ currentTime + d <= ScenarioSeconds
          /\ currentTime + d + 2 * (ScenarioFrames - (frames + 1)) >= ScenarioSeconds
          /\ currentTime' = currentTime + d
    /\ faces' = TRUE
    /\ lengths' = ScenarioInput(frames + 1)
    /\ frames' = frames + 1
    /\ resetThisFrame' = FALSE
    /\ blinkThisFrame' = FALSE
    /\ pc' = PcAfter("read")
    /\ UNCHANGED fnVars
    /\ UNCHANGED <<db, lastSave,
                   exitReason, sessionStartTime, lastMinuteCheck, currentMinuteBlinks,
                   ratioList, blinkCounter, counter, records, sinceBlink,
                   runLen, runBlinks, runStartIdle>>

ScenarioNext ==
    \/ ScenarioRead
    \/ MinuteCheck
    \/ FaceBranch
    \/ Continue

SpecScenario == Init /\ [][ScenarioNext]_vars

\* ---- single functions applied to chosen arguments ----
loopVars == <<pc, exitReason, currentTime, faces, sessionStartTime, lastMinuteCheck,
              currentMinuteBlinks, blinkCounter, counter, records,
              frames, resetThisFrame, blinkThisFrame, sinceBlink, runLen,
              runBlinks, runStartIdle, db, lastSave, lengths>>

FnArgs ==
    {<<"classify", r, 0>> : r \in 0..MaxRate}
    \cup {<<"estimate", b, t>> : b \in 0..MaxBlinks, t \in Durations}
    \cup {<<"window", 0, 0>>}

FnInit ==
    /\ pc = "read"
    /\ exitReason = "none"
    /\ currentTime = 0
    /\ faces = FALSE
    /\ sessionStartTime = 0
    /\ lastMinuteCheck = 0
    /\ currentMinuteBlinks = 0
    /\ ratioList = <<>>
    /\ blinkCounter = 0
    /\ counter = 0
    /\ records = <<>>
    /\ frames = 0
    /\ resetThisFrame = FALSE
    /\ blinkThisFrame = FALSE
    /\ sinceBlink = -1
    /\ runLen = 0
    /\ runBlinks = 0
    /\ runStartIdle = FALSE
    /\ db = "none"
    /\ lastSave = "none"
    /\ lengths = <<0, 0>>
    /\ arg \in FnArgs
    /\ out = <<>>
    /\ samples = <<>>

\* lines 75-82 applied to a rate
ApplyClassify ==
    /\ arg[1] = "classify"
    /\ out = <<>>
    /\ out' = <<getBlinkHealthStatus(arg[2])>>
    /\ UNCHANGED <<arg, samples, ratioList>>
    /\ UNCHANGED loopVars

\* lines 206-211 applied to a blink count and a session duration
ApplyEstimate ==
    /\ arg[1] = "estimate"
    /\ out = <<>>
    /\ out' = LiveEstimate(arg[2], arg[3])
    /\ UNCHANGED <<arg, samples, ratioList>>
    /\ UNCHANGED loopVars

\* lines 187-191 applied to one more ratio
PushSample ==
    /\ arg[1] = "window"
    /\ Len(samples) < MaxSamples
    /\ \E r \in WindowInputs :
          /\ ratioList' = Window(ratioList, r)
          /\ samples' = Append(samples, r)
    /\ out' = RatioAvg(ratioList')
    /\ UNCHANGED arg
    /\ UNCHANGED loopVars

FnNext ==
    \/ ApplyClassify
    \/ ApplyEstimate
    \/ PushSample

SpecFn == FnInit /\ [][FnNext]_vars

\* ---- helpers of the properties ----
MinuteRecords == SelectSeq(records, LAMBDA r : r.kind = "minute")
FinalRecords == SelectSeq(records, LAMBDA r : r.kind = "final")
\* the face branch of the current frame ran to its end in this step
FaceStepDone == pc = "branch" /\ faces /\ pc' = "quit"
\* least n with n * DebounceLimit >= k
CeilDiv(k) == (k + DebounceLimit - 1) \div DebounceLimit

\* C1: in the blink registration step of a face-present frame a blink is
\* registered iff the debounce counter is 0 and the mean of the window is
\* strictly below 35; then blinkCounter and currentMinuteBlinks each grow by
\* exactly 1 and the counter becomes non-zero; otherwise neither count changes
\* in that step.
C1_BlinkRegistration ==
    [][FaceStepDone =>
         IF counter = 0 /\ Sum(ratioList') < 35 * Len(ratioList')
         THEN /\ blinkCounter' = blinkCounter + 1
              /\ currentMinuteBlinks' = currentMinuteBlinks + 1
              /\ counter' # 0
         ELSE /\ blinkCounter' = blinkCounter
              /\ currentMinuteBlinks' = currentMinuteBlinks]_vars

\* a blink has just been registered and the counter left Idle
C1_Witness ==
    pc = "quit" /\ blinkThisFrame /\ blinkCounter = 1 /\ currentMinuteBlinks = 1 /\ counter = 2

\* C2 (as claimed): none of the next 10 face-present frames after a
\* registering frame registers a blink.
C2_Original ==
    [][(FaceStepDone /\ sinceBlink \in 0..9) => blinkCounter' = blinkCounter]_vars

\* C2 (amended): none of the next 9 face-present frames after a registering
\* frame registers a blink, whatever the smoothed ratio is on them.
C2_RefractoryNine ==
    [][(FaceStepDone /\ sinceBlink \in 0..8) => blinkCounter' = blinkCounter]_vars

\* nine face frames below the threshold have followed a blink without a new one
C2_Witness == sinceBlink = 9 /\ runLen = 10 /\ blinkCounter = 1

\* C3 (as claimed): a maximal run of consecutive face-present frames whose
\* smoothed ratio stays below 35 increases blinkCounter by exactly 1 (stated
\* here for the runs that begin with the counter at 0, at the step that ends
\* the run).
C3_Original ==
    [][(runLen > 0 /\ runStartIdle /\ runLen' = 0) => runBlinks = 1]_vars

\* C3 (amended): a run of consecutive face-present frames with smoothed ratio
\* below 35 that begins with the counter at 0 has registered, after L frames,
\* one blink for every started group of 10 frames (so exactly 1 while L <= 10).
C3_OnePerTenFrames ==
    (runLen > 0 /\ runStartIdle) => runBlinks = CeilDiv(runLen)

\* a run that reached the 10th frame with one blink
C3_Witness == runStartIdle /\ runLen = 10 /\ runBlinks = 1

\* C4: the debounce counter is always in 0..10.
C4_CounterRange == counter \in 0..10

\* the counter at the top of its range
C4_Witness == counter = 10 /\ sinceBlink = 8

\* C5 (as claimed): after the registering frame the counter stays non-zero and
\* is 0 again on the 11th frame after it, not earlier.
C5_Original ==
    /\ sinceBlink \in 0..10 => counter # 0
    /\ sinceBlink = 11 => counter = 0

\* C5 (amended): after the registering frame the counter is 2, it grows by one
\* on each of the next 8 face-present frames and is exactly 0 after the 9th
\* face-present frame that follows the registering frame; it then stays 0
\* until the next blink.
C5_ZeroOnNinth ==
    /\ sinceBlink \in 0..8 => counter = sinceBlink + 2
    /\ sinceBlink >= 9 => counter = 0
    /\ sinceBlink < 0 => counter = 0

\* the 9th face frame after a blink has passed and the counter is back at 0
C5_Witness == sinceBlink = 9 /\ counter = 0 /\ blinkCounter = 1

\* C6: 0 <= currentMinuteBlinks <= blinkCounter in every state.
C6_MinuteWithinTotal == 0 <= currentMinuteBlinks /\ currentMinuteBlinks <= blinkCounter

\* one blink in a closed bucket and one in the current bucket
C6_Witness == blinkCounter = 2 /\ currentMinuteBlinks = 1 /\ Len(MinuteRecords) >= 1

\* C7 (as claimed): after the frame on which the reset occurs,
\* currentMinuteBlinks is 0 and lastMinuteCheck is the frame's time.
C7_Original ==
    (pc = "quit" /\ resetThisFrame) =>
        (currentMinuteBlinks = 0 /\ lastMinuteCheck = currentTime)

\* C7 (amended): on every frame, with or without a face, the minute bucket is
\* reset iff now - lastMinuteCheck >= 60; immediately after the reset
\* currentMinuteBlinks is 0 and lastMinuteCheck is now, and at the end of that
\* frame lastMinuteCheck is still now and currentMinuteBlinks is 1 if a blink
\* was registered on the frame and 0 otherwise; on a frame with
\* now - lastMinuteCheck < 60 lastMinuteCheck is unchanged and no minute
\* record is emitted.
C7_MinuteReset ==
    [][/\ pc = "minute" =>
            IF currentTime - lastMinuteCheck >= 60
            THEN /\ currentMinuteBlinks' = 0
                 /\ lastMinuteCheck' = currentTime
                 /\ Len(MinuteRecords') = Len(MinuteRecords) + 1
            ELSE /\ currentMinuteBlinks' = currentMinuteBlinks
                 /\ lastMinuteCheck' = lastMinuteCheck
                 /\ records' = records
       /\ pc # "minute" =>
            /\ lastMinuteCheck' = lastMinuteCheck
            /\ MinuteRecords' = MinuteRecords
       /\ (pc' = "quit" /\ resetThisFrame') =>
            /\ lastMinuteCheck' = currentTime'
            /\ currentMinuteBlinks' = IF blinkThisFrame' THEN 1 ELSE 0]_vars

\* a reset at exactly 60 seconds on a frame without a face, and nothing counted
C7_Witness ==
    /\ pc = "quit" /\ resetThisFrame /\ ~faces
    /\ currentTime = 60 /\ lastMinuteCheck = 60 /\ currentMinuteBlinks = 0
    /\ Len(MinuteRecords) = 1

\* C8 (as claimed): at every reset the new bucket start is the previous bucket
\* start plus 60.
C8_Original ==
    [][lastMinuteCheck' # lastMinuteCheck => lastMinuteCheck' = lastMinuteCheck + 60]_vars

\* C8 (amended): a reset happens on the first frame whose time is at least 60
\* seconds after the bucket's own start; the new bucket start is that frame's
\* time, so each closed bucket spans at least 60 seconds.
C8_AtLeastSixty ==
    [][lastMinuteCheck' # lastMinuteCheck =>
          /\ lastMinuteCheck' = currentTime
          /\ lastMinuteCheck' >= lastMinuteCheck + 60
          /\ Len(MinuteRecords') = Len(MinuteRecords) + 1]_vars

\* the first bucket was closed 65 seconds after its start
C8_Witness ==
    /\ Len(MinuteRecords) = 1
    /\ lastMinuteCheck = 65
    /\ MinuteRecords[1].sessionDuration = 65

\* C9 (as claimed): a blink registered on the frame of a reset is counted in
\* the bucket being closed: the record of that frame includes it in
\* blinksPerMinute and totalBlinks and the new bucket starts at 0.
C9_Original ==
    (pc = "quit" /\ resetThisFrame /\ blinkThisFrame) =>
        /\ currentMinuteBlinks = 0
        /\ MinuteRecords[Len(MinuteRecords)].totalBlinks = blinkCounter
        /\ MinuteRecords[Len(MinuteRecords)].blinksPerMinute >= 1

\* C9 (amended): within one frame the minute-boundary check runs before the
\* blink/debounce update: a blink registered on the frame of a reset is
\* counted in the new bucket, so the record emitted on that frame has
\* totalBlinks one less than blinkCounter after the frame, and the new bucket
\* holds 1 at the end of the frame.
C9_MinuteCheckFirst ==
    (pc = "quit" /\ resetThisFrame /\ blinkThisFrame) =>
        /\ currentMinuteBlinks = 1
        /\ MinuteRecords[Len(MinuteRecords)].totalBlinks = blinkCounter - 1

\* a blink registered on a reset frame after an empty first bucket
C9_Witness ==
    /\ pc = "quit" /\ resetThisFrame /\ blinkThisFrame
    /\ blinkCounter = 1
    /\ MinuteRecords[Len(MinuteRecords)].blinksPerMinute = 0

\* C10: a record is handed to saveBlinkDataToFirebase at each minute boundary
\* and exactly once at session end, for every way the loop can end (quit key
\* or camera read failure), and at no other time.
C10_Claim ==
    /\ pc = "done" => Len(FinalRecords) = 1
    /\ pc # "done" => Len(FinalRecords) = 0

\* C11: the state after the minute check of a frame is the same whether the
\* write succeeds, fails or is skipped: the bucket is reset, nothing else of
\* the session changes, the loop goes on to the branch of the same frame; a
\* record is handed over only by a due minute check or by the quit path, and
\* no record is handed over twice.
C11_FireAndForget ==
    [][/\ (pc = "minute" /\ currentTime - lastMinuteCheck >= 60) =>
            /\ lastSave' \in {"skipped", "saved", "failed"}
            /\ currentMinuteBlinks' = 0
            /\ lastMinuteCheck' = currentTime
            /\ blinkCounter' = blinkCounter
            /\ counter' = counter
            /\ ratioList' = ratioList
            /\ pc' = "branch"
            /\ Len(records') = Len(records) + 1
       /\ records' # records =>
            \/ pc = "minute" /\ currentTime - lastMinuteCheck >= 60
            \/ pc = "quit"
       /\ \A i, j \in 1..Len(records') : records'[i] = records'[j] => i = j]_vars

\* a later frame after a failed write: nothing was repeated
C11_Witness ==
    /\ lastSave = "failed" /\ pc = "quit" /\ ~resetThisFrame
    /\ Len(records) = 1 /\ currentTime > lastMinuteCheck

\* C12: a frame without a face leaves the ratio window, blinkCounter and the
\* debounce counter unchanged; on such a frame currentMinuteBlinks and
\* lastMinuteCheck change only by the minute-boundary reset.
C12_NoFaceNoUpdate ==
    [][/\ (pc \in {"minute", "branch"} /\ ~faces) =>
            /\ ratioList' = ratioList
            /\ blinkCounter' = blinkCounter
            /\ counter' = counter
            /\ (currentMinuteBlinks' # currentMinuteBlinks \/ lastMinuteCheck' # lastMinuteCheck) =>
                  /\ pc = "minute"
                  /\ currentTime - lastMinuteCheck >= 60
                  /\ currentMinuteBlinks' = 0
       /\ pc \in {"read", "quit"} =>
            /\ ratioList' = ratioList
            /\ blinkCounter' = blinkCounter
            /\ counter' = counter
            /\ currentMinuteBlinks' = currentMinuteBlinks]_vars

\* a frame without a face has passed while the window was below the threshold
\* and the counter was running
C12_Witness ==
    /\ pc = "quit" /\ ~faces /\ ~blinkThisFrame
    /\ ratioList = <<21>> /\ counter = 2 /\ blinkCounter = 1 /\ frames = 2

\* the sum of the last k elements of a sequence, by index
RECURSIVE SumLast(_, _)
SumLast(sq, k) == IF k = 0 THEN 0 ELSE sq[Len(sq) - k + 1] + SumLast(sq, k - 1)

\* C13: the ratio window is a FIFO of capacity 3: its length is the smaller of
\* 3 and the number of samples so far, it holds the most recent samples in
\* arrival order, and the smoothed value is their arithmetic mean (50,50,20
\* give mean 40; a 4th input 10 gives the window 50,20,10 with sum 80).
C13_WindowFifo ==
    arg = <<"window", 0, 0>> =>
        LET n == Len(samples)
            k == IF n < 3 THEN n ELSE 3
        IN  /\ Len(ratioList) = k
            /\ \A i \in 1..k : ratioList[i] = samples[n - k + i]
            /\ n > 0 => out = <<SumLast(samples, k), k>>
            /\ samples = <<50, 50, 20>> => out[1] = 40 * out[2]
            /\ samples = <<50, 50, 20, 10>> =>
                  (ratioList = <<50, 20, 10>> /\ out = <<80, 3>>)

\* the fourth sample has evicted the oldest one
C13_Witness == samples = <<50, 50, 20, 10>> /\ ratioList = <<50, 20, 10>>

\* C14: getBlinkHealthStatus depends on the rate alone, with the inclusive
\* healthy band 12..20: below 12 is TOO LOW, above 20 is TOO HIGH, anything
\* from 12 to 20 is HEALTHY.
C14_HealthBands ==
    (arg # <<>> /\ arg[1] = "classify" /\ out # <<>>) =>
        /\ arg[2] < 12 => out = <<"TOO LOW">>
        /\ arg[2] > 20 => out = <<"TOO HIGH">>
        /\ (12 <= arg[2] /\ arg[2] <= 20) => out = <<"HEALTHY">>
        /\ arg[2] = 11 => out[1] = "TOO LOW"
        /\ arg[2] = 12 => out[1] = "HEALTHY"
        /\ arg[2] = 20 => out[1] = "HEALTHY"
        /\ arg[2] = 21 => out[1] = "TOO HIGH"

\* the lower end of the healthy band has been classified
C14_Witness == arg = <<"classify", 12, 0>> /\ out = <<"HEALTHY">>

\* C16: the live rate is blinkCounter / (duration/60) truncated when the
\* duration is at least 30 s, and (blinkCounter / max(duration/60, 0.5)) * 0.5
\* truncated, which is blinkCounter itself, when it is below 30 s; the status
\* is the classification of that value; 30 s itself takes the first branch.
C16_LiveEstimate ==
    (arg # <<>> /\ arg[1] = "estimate" /\ out # <<>>) =>
        LET bc == arg[2]
            d == arg[3]
        IN  /\ d >= 30 => (out[1] * d <= 60 * bc /\ 60 * bc < (out[1] + 1) * d)
            /\ d < 30 => out[1] = bc
            /\ d = 30 => out[1] = 2 * bc
            /\ out[2] = getBlinkHealthStatus(out[1])
            /\ out[1] < 12 => out[2] = "TOO LOW"
            /\ out[1] > 20 => out[2] = "TOO HIGH"

\* three blinks at exactly 30 s are shown as 6 per minute
C16_Witness == arg = <<"estimate", 3, 30>> /\ out = <<6, "TOO LOW">>

\* C15 (as claimed): the sample appended on a face-present frame is
\* round(lenghtVer / lenghtHor * 100).
C15_Original ==
    [][FaceStepDone =>
          ratioList'[Len(ratioList')] = RoundNearest(lengths[1] * 100, lengths[2])]_vars

\* C15 (amended): the sample appended on a face-present frame is
\* int(lenghtVer / lenghtHor * 100): the percentage ratio truncated, i.e. the
\* greatest integer not above it, for all positive distances.
C15_Truncated ==
    [][FaceStepDone =>
          LET ratio == ratioList'[Len(ratioList')]
          IN  /\ ratio * lengths[2] <= lengths[1] * 100
              /\ lengths[1] * 100 < (ratio + 1) * lengths[2]]_vars

\* 7 / 32 * 100 = 21.875 has been appended as 21
C15_Witness ==
    /\ pc = "quit" /\ faces /\ lengths = <<7, 32>>
    /\ ratioList[Len(ratioList)] = 21

\* the blinks of the records before the i-th one
TotalBefore(i) == IF i = 1 THEN 0 ELSE records[i - 1].totalBlinks

\* C17 (as claimed): the rate of every record is the blink count of the bucket
\* the record closes, and its status is the classification of that rate.
C17_Original ==
    \A i \in 1..Len(records) :
        /\ records[i].blinksPerMinute = records[i].totalBlinks - TotalBefore(i)
        /\ records[i].healthStatus = getBlinkHealthStatus(records[i].blinksPerMinute)

\* C17 (amended): the rate of every minute-boundary record is the blink count
\* of the bucket the record closes; the rate of the final session record is
\* the session average int(blinkCounter / max(duration/60, 0.1)); in both the
\* status is the classification of the stored rate.
C17_StoredRate ==
    \A i \in 1..Len(records) :
        LET r == records[i]
        IN  /\ r.kind = "minute" =>
                  r.blinksPerMinute = r.totalBlinks - TotalBefore(i)
            /\ r.kind = "final" =>
                  /\ r.sessionDuration >= 6 =>
                        /\ r.blinksPerMinute * r.sessionDuration <= 60 * r.totalBlinks
                        /\ 60 * r.totalBlinks < (r.blinksPerMinute + 1) * r.sessionDuration
                  /\ r.sessionDuration < 6 => r.blinksPerMinute = 10 * r.totalBlinks
            /\ r.healthStatus = getBlinkHealthStatus(r.blinksPerMinute)

\* a bucket of one blink was closed, and the final record stores an average
\* that is not the count of its bucket
C17_Witness ==
    /\ Len(records) = 2
    /\ records[1].kind = "minute" /\ records[1].blinksPerMinute = 1
    /\ records[2].kind = "final"
    /\ records[2].blinksPerMinute # records[2].totalBlinks - records[1].totalBlinks

\* C19: on a face-present frame whose horizontal distance is 0 the frame
\* raises an error: the program stops there, no sample is appended and
\* blinkCounter, currentMinuteBlinks and the debounce counter are left as
\* they were; no other frame ends that way.
C19_ZeroDivisionStops ==
    [][/\ (pc = "branch" /\ faces /\ lengths[2] = 0) =>
            /\ pc' = "crashed"
            /\ ratioList' = ratioList
            /\ blinkCounter' = blinkCounter
            /\ currentMinuteBlinks' = currentMinuteBlinks
            /\ counter' = counter
       /\ pc' = "crashed" => (pc = "branch" /\ faces /\ lengths[2] = 0)
       /\ pc # "crashed"]_vars

\* the error struck while a window and a running counter existed
C19_Witness ==
    /\ pc = "crashed" /\ lengths[2] = 0
    /\ Len(ratioList) = 3 /\ counter = 4 /\ blinkCounter = 1

RECURSIVE SumRates(_)
SumRates(rs) == IF rs = <<>> THEN 0 ELSE Head(rs).blinksPerMinute + SumRates(Tail(rs))

\* C20: the rates of all minute-boundary records so far plus
\* currentMinuteBlinks equal blinkCounter.
C20_Conservation == SumRates(MinuteRecords) + currentMinuteBlinks = blinkCounter

\* one blink in a closed bucket, one in the open bucket
C20_Witness ==
    /\ Len(MinuteRecords) >= 1 /\ MinuteRecords[1].blinksPerMinute = 1
    /\ currentMinuteBlinks = 1 /\ blinkCounter = 2

\* C18: 90 face-present frames over 65 seconds with ratio 40 for 27 frames,
\* 20 for 3 frames and 40 for 60 frames register exactly 1 blink and hand
\* over exactly 1 minute record, on the first frame at or after 60 s, with
\* totalBlinks = 1 and blinksPerMinute = 1, the blinks of that bucket.
C18_Scenario ==
    /\ blinkCounter <= 1
    /\ currentTime < 60 => records = <<>>
    /\ (currentTime >= 60 /\ pc # "minute") => Len(records) = 1
    /\ Len(records) <= 1
    /\ records # <<>> =>
          /\ records[1].kind = "minute"
          /\ records[1].totalBlinks = 1
          /\ records[1].blinksPerMinute = 1
          /\ records[1].sessionDuration = lastMinuteCheck
    /\ (frames = ScenarioFrames /\ pc \in {"quit", "read"}) =>
          /\ currentTime = ScenarioSeconds
          /\ blinkCounter = 1
          /\ Len(records) = 1

\* the last frame of the scenario is done
C18_Witness ==
    /\ frames = ScenarioFrames /\ pc = "read" /\ currentTime = ScenarioSeconds
    /\ blinkCounter = 1 /\ Len(records) = 1 /\ ratioList = <<40, 40, 40>>
====
